---- MODULE Spec2Model ----
(***************************************************************************)
(* Model of the poker table rendering engine (poker_viz) of                *)
(* drills-creator: the game data processor, the seat layout, the drawers   *)
(* and the visualizer with its template cache; and of its callers: the     *)
(* image server, the batch driver and the uploader's retry loop.           *)
(*                                                                         *)
(* An image is the sequence of the layers composited onto it, oldest       *)
(* first; the image None (no image) is the empty sequence.  An exception   *)
(* is the name of its Python class; "None" is Python's None.               *)
(***************************************************************************)
EXTENDS Integers, Sequences, FiniteSets, TLC

VARIABLES
    viz,              \* the fields of one PokerTableVisualizer instance
    call,             \* the method called last on the instance ("": none yet)
    raised,           \* exception that call let through ("None": it returned)
    returned,         \* its return value
    ops,              \* the drawing methods it executed, in order
    saved,            \* the image file it wrote
    calls,            \* calls made on this instance so far
    position_to_seat, \* the mapping a direct drawer call worked with
    player_positions, \* PlayerDrawer.player_positions after draw_player_circles
    stacks,           \* the chip stacks draw_player_chips built, by player
    template_key,     \* (player count, hero position) template_base was built for
    start_key,        \* key of the stored layer that call's refresh() copied
    files,            \* the asset files present on disk
    processor,        \* the fields of one GameDataProcessor used on its own
    server,           \* hand_image_server: its cache and the requests in flight
    batch,            \* one BatchVisualizer: its stats and the files it wrote
    upload            \* one upload_single_image_with_retry call

\* the state of the programs other than the visualizer under test
others == << processor, server, batch, upload >>

\* the state of the visualizer under test and of the disk
drawing == << viz, call, raised, returned, ops, saved, calls, position_to_seat,
              player_positions, stacks, template_key, start_key, files >>

vars == << viz, call, raised, returned, ops, saved, calls, position_to_seat,
           player_positions, stacks, template_key, start_key, files, others >>

----------------------------------------------------------------------------
(* Bounds of the model *)

MaxPlayers == 10

MaxTenths == 1205

MaxCalls == 3

MainPlayers == 3

MaxRequests == 3

MaxFiles == 2

MaxHands == 2

MaxRetries == 3

----------------------------------------------------------------------------
(* Python values *)

None == "None"

NoImage == << >>

NoKey == << 0, None >>

Truthy(s) == s # None /\ s # ""

Range(s) == { s[i] : i \in 1..Len(s) }

Put(m, k, v) == [ x \in (DOMAIN m) \cup {k} |-> IF x = k THEN v ELSE m[x] ]

Min(a, b) == IF a <= b THEN a ELSE b

----------------------------------------------------------------------------
(* Asset files, as (folder, name) *)

FontFiles ==
    { << "fonts/static", "Inter_24pt-Bold.ttf" >>,
      << "fonts/static", "Inter_18pt-Regular.ttf" >>,
      << "fonts/static", "Inter_24pt-SemiBold.ttf" >> }

Arial == << "system", "arial.ttf" >>

\* os.path.join(cards_folder, f"{rank}{suit}.png"); the cards of the model
\* are written with an upper-case rank and a lower-case suit already
CardPath(card) == << "cards-images", card >>

CardBackPath == << "cards-images", "back.png" >>

AvatarPath == << "", "avatar.png" >>

LogoPath == << "", "flow_logo.png" >>

AllAssets ==
    FontFiles \cup { Arial, CardPath("Ah"), CardPath("Kd"), CardPath("As"),
                     CardBackPath, AvatarPath, LogoPath }

exists(path) == path \in files

----------------------------------------------------------------------------
(* GameDataProcessor *)

standard_positions_by_count(n) ==
    CASE n = 9 -> << "UTG", "UTG+1", "UTG+2", "LJ", "HJ", "CO", "BTN", "SB", "BB" >>
      [] n = 8 -> << "UTG", "UTG+1", "LJ", "HJ", "CO", "BTN", "SB", "BB" >>
      [] n = 7 -> << "UTG", "LJ", "HJ", "CO", "BTN", "SB", "BB" >>
      [] n = 6 -> << "LJ", "HJ", "CO", "BTN", "SB", "BB" >>
      [] n = 5 -> << "HJ", "CO", "BTN", "SB", "BB" >>
      [] n = 4 -> << "CO", "BTN", "SB", "BB" >>
      [] n = 3 -> << "BTN", "SB", "BB" >>
      [] n = 2 -> << "SB", "BB" >>
      [] OTHER -> << >>

_get_default_mapping ==
    [ p \in { "BB", "SB", "BTN", "CO", "HJ", "LJ", "UTG+2", "UTG+1", "UTG" } |->
        CASE p = "BB" -> 8
          [] p = "SB" -> 1
          [] p = "BTN" -> 2
          [] p = "CO" -> 3
          [] p = "HJ" -> 4
          [] p = "LJ" -> 5
          [] p = "UTG+2" -> 6
          [] p = "UTG+1" -> 7
          [] p = "UTG" -> 8 ]

\* list.index(x); 0-based, -1 stands for the ValueError
IndexOf(s, x) ==
    IF x \in Range(s) THEN (CHOOSE i \in 1..Len(s) :
                              s[i] = x /\ \A j \in 1..(i-1) : s[j] # x) - 1
    ELSE -1

\* first player with is_hero, as an index into players (0: None)
FindHero(players) ==
    IF \E i \in 1..Len(players) : players[i].is_hero
    THEN CHOOSE i \in 1..Len(players) :
            players[i].is_hero /\ \A j \in 1..(i-1) : ~players[j].is_hero
    ELSE 0

process_game_data(json) ==
    [ players |-> json.players,
      num_players |-> Len(json.players),
      pot |-> json.pot,
      active_position |-> json.active_position,
      active_players |-> SelectSeq(json.players, LAMBDA p : ~p.is_folded),
      hero |-> FindHero(json.players) ]

\* A solution path is the sequence of its parts (os.sep splits it); NonePath
\* stands for solution_path = None and the empty sequence for "".
NonePath == << None >>

\* the characters of a directory name, grouped into the words the parser
\* looks for, runs of digits and separators
DirTokens(name) ==
    CASE name = "MTT_PCT50" -> << "MTT", "_", "PCT", "50" >>
      [] name = "MTT_PCT_FT" -> << "MTT", "_", "PCT", "_", "FT" >>
      [] name = "MTT_START" -> << "MTT", "_", "START" >>
      [] name = "MTT_BUBBLEMID" -> << "MTT", "_", "BUBBLEMID" >>
      [] name = "cash_FT" -> << "cash", "_", "FT" >>
      [] name = "depth_20" -> << "depth", "_", "20" >>
      [] name = "depth_x" -> << "depth", "_", "x" >>
      [] name = "depth_" -> << "depth", "_" >>
      [] OTHER -> << name >>

Digits == { "20", "50" }

\* int(text) of a run of digits
IntOf(text) == CASE text = "20" -> 20 [] text = "50" -> 50

\* f"{digits}% Field left"
PctFieldLeft(digits) ==
    CASE digits = "20" -> "20% Field left" [] digits = "50" -> "50% Field left"

\* parsed_avg_stack = None
NoStack == 0 - 1

\* next((p for p in path_parts if p.startswith(prefix)), ""), as the index
\* of the part (0: none)
RECURSIVE FirstPart(_, _, _)
FirstPart(path_parts, prefix, i) ==
    IF i > Len(path_parts) THEN 0
    ELSE LET tokens == DirTokens(path_parts[i])
         IN  IF /\ Len(tokens) >= Len(prefix)
                /\ SubSeq(tokens, 1, Len(prefix)) = prefix
             THEN i
             ELSE FirstPart(path_parts, prefix, i + 1)

\* re.search(r"PCT(\d+)", game_dir): the digits of the first match, or None
RECURSIVE PctMatch(_, _)
PctMatch(tokens, i) ==
    IF i >= Len(tokens) THEN None
    ELSE IF tokens[i] = "PCT" /\ tokens[i + 1] \in Digits THEN tokens[i + 1]
    ELSE PctMatch(tokens, i + 1)

Contains(tokens, word) == \E i \in DOMAIN tokens : tokens[i] = word

\* depth_part.split("_")[1]: what stands between the first and the second
\* separator; NoStack where int() raises ValueError
DepthValue(tokens) ==
    LET rest == SubSeq(tokens, 3, Len(tokens))
        stop == IF Contains(rest, "_")
                THEN (CHOOSE i \in DOMAIN rest :
                        rest[i] = "_" /\ \A j \in 1..(i - 1) : rest[j] # "_") - 1
                ELSE Len(rest)
        field == SubSeq(rest, 1, stop)
    IN  IF Len(field) = 1 /\ field[1] \in Digits THEN IntOf(field[1]) ELSE NoStack

_parse_solution_path(self) ==
    LET path_parts == self.solution_path
        g == FirstPart(path_parts, << "MTT" >>, 1)
        game_dir == IF g = 0 THEN << >> ELSE DirTokens(path_parts[g])
        pct_match == PctMatch(game_dir, 1)
        field_desc == IF pct_match # None THEN PctFieldLeft(pct_match)
                      ELSE IF Contains(game_dir, "START") THEN "100% Field left"
                      ELSE IF Contains(game_dir, "FT") THEN "Final table"
                      ELSE IF Contains(game_dir, "BUBBLEMID") THEN "Near bubble"
                      ELSE None
        d == FirstPart(path_parts, << "depth", "_" >>, 1)
    IN  [ self EXCEPT !.parsed_field_left = field_desc,
                      !.parsed_avg_stack =
                          IF d = 0 THEN @ ELSE DepthValue(DirTokens(path_parts[d])) ]

\* GameDataProcessor.process_game_data() on the instance self: gd holds the
\* fields it derives from self.data
ProcessData(self) ==
    LET derived == [ self EXCEPT !.gd = process_game_data(self.data) ]
    IN  IF self.solution_path # NonePath /\ self.solution_path # << >>
        THEN _parse_solution_path(derived)
        ELSE derived

\* GameDataProcessor(json_data, solution_path)
GameDataProcessor(json_data, solution_path) ==
    ProcessData([ data |-> json_data,
                  solution_path |-> solution_path,
                  parsed_avg_stack |-> NoStack,
                  parsed_field_left |-> None,
                  gd |-> << >> ])

\* update_data without the two assignments that clear the parsed fields
update_dataKeepingParsed(self, json_data, solution_path) ==
    ProcessData([ self EXCEPT
        !.data = json_data,
        !.solution_path = IF solution_path # NonePath THEN solution_path ELSE @ ])

\* GameDataProcessor.update_data(json_data, solution_path)
update_data(self, json_data, solution_path) ==
    ProcessData([ self EXCEPT
        !.data = json_data,
        !.solution_path = IF solution_path # NonePath THEN solution_path ELSE @,
        !.parsed_avg_stack = NoStack,
        !.parsed_field_left = None ])

HeroPosition(gd) == IF gd.hero = 0 THEN None ELSE gd.players[gd.hero].position

\* the rotation run the other way round the table
RotatedPositionCounter(standard, hero_index, i, n) ==
    standard[((hero_index - i) % n) + 1]

\* the seat the loop body assigns at step i: the position hero_index + i
\* places after the hero's gets seat i
RotatedPosition(standard, hero_index, i, n) == standard[((hero_index + i) % n) + 1]

RECURSIVE RotateLoop(_, _, _, _, _)
RotateLoop(standard, hero_index, n, i, m) ==
    IF i >= n THEN m
    ELSE RotateLoop(standard, hero_index, n, i + 1,
                    Put(m, RotatedPosition(standard, hero_index, i, n), i))

EmptyDict == [ x \in {} |-> 0 ]

get_position_mapping(gd) ==
    LET standard_positions == standard_positions_by_count(gd.num_players)
        hero_position == HeroPosition(gd)
    IN  IF Truthy(hero_position) /\ standard_positions # << >>
        THEN IF IndexOf(standard_positions, hero_position) >= 0
             THEN RotateLoop(standard_positions,
                             IndexOf(standard_positions, hero_position),
                             gd.num_players, 0, EmptyDict)
             ELSE Put(_get_default_mapping, hero_position, 0)
        ELSE _get_default_mapping

----------------------------------------------------------------------------
(* PokerTableConfig *)

base_width == 1432

base_height == 849

\* an unsupported count replaced by the largest supported one
ClampedCountNine(num_players) == IF num_players \in 2..9 THEN num_players ELSE 9

\* an unsupported count replaced by the nearest supported one
ClampedCountNearest(num_players) ==
    IF num_players < 2 THEN 2 ELSE IF num_players > 9 THEN 9 ELSE num_players

\* if num_players not in [2, ..., 9]: warning, num_players = 8
ClampedCount(num_players) == IF num_players \in 2..9 THEN num_players ELSE 8

\* the coordinates of the seats, by name, for a supported count
SeatLayout(n) ==
        CASE n = 2 -> << "bottom_middle", "top_middle" >>
          [] n = 3 -> << "bottom_middle", "top_left", "top_right" >>
          [] n = 4 -> << "bottom_middle", "left_middle", "top_left", "top_right" >>
          [] n = 5 -> << "bottom_middle", "left_middle", "top_left", "top_right",
                         "right_middle" >>
          [] n = 6 -> << "bottom_middle", "bottom_left", "left_middle", "top_middle",
                         "right_middle", "bottom_right" >>
          [] n = 7 -> << "bottom_middle", "bottom_left", "left_middle", "top_middle",
                         "top_right", "right_middle", "bottom_right" >>
          [] n = 8 -> << "bottom_middle", "bottom_left", "left_middle", "top_left",
                         "top_middle", "top_right", "right_middle", "bottom_right" >>
          [] n = 9 -> << "bottom_middle", "bottom_left", "left_middle", "top_left",
                         "top_middle", "top_right", "right_top", "right_bottom",
                         "bottom_right" >>

_init_seat_positions(num_players) == SeatLayout(ClampedCount(num_players))

\* the three Inter fonts, else Arial for all three, else the bitmap font
load_fonts ==
    IF FontFiles \subseteq files THEN "Inter"
    ELSE IF exists(Arial) THEN "arial.ttf"
    ELSE "load_default"

PokerTableConfig(scale_factor, num_players) ==
    [ scale_factor |-> scale_factor,
      num_players |-> num_players,
      width |-> base_width * scale_factor,
      height |-> base_height * scale_factor,
      seat_positions |-> _init_seat_positions(num_players) ]

----------------------------------------------------------------------------
(* PlayerDrawer *)

\* the fixed fallback seat of the deprecated draw_players
FallbackSeatFixed(cfg) == 8

\* the seat draw_player_circles falls back to for a position the mapping lacks
FallbackSeat(cfg) == Min(8, Len(cfg.seat_positions) - 1)

_get_safe_seat_position(cfg, seat_index) ==
    IF seat_index >= Len(cfg.seat_positions)
    THEN cfg.seat_positions[1]
    ELSE cfg.seat_positions[seat_index + 1]

\* the hero colour tested before the folded colour
PlayerColorHeroFirst(gd, player) ==
    LET is_active == player.is_active \/ player.position = gd.active_position
    IN  IF player.is_hero THEN "hero_player_color"
        ELSE IF player.is_folded THEN "folded_player_color"
        ELSE IF is_active THEN "active_player_color"
        ELSE "player_color"

PlayerColor(gd, player) ==
    LET is_active == player.is_active \/ player.position = gd.active_position
    IN  IF player.is_folded THEN "folded_player_color"
        ELSE IF player.is_hero THEN "hero_player_color"
        ELSE IF is_active THEN "active_player_color"
        ELSE "player_color"

\* _draw_background_circle: the disc, and the avatar in it if the file exists
BackgroundCircle(at, color) ==
    << [ kind |-> "disc", at |-> at, color |-> color ] >>
        \o (IF exists(AvatarPath) THEN << [ kind |-> "avatar", at |-> at ] >>
            ELSE << >>)

CircleSeatIndex(cfg, map, player) ==
    IF player.is_hero THEN 0
    ELSE IF player.position \in DOMAIN map THEN map[player.position]
    ELSE FallbackSeat(cfg)

RECURSIVE CirclesLoop(_, _, _, _, _, _)
CirclesLoop(gd, cfg, map, i, img, pp) ==
    IF i > Len(gd.players) THEN [ img |-> img, player_positions |-> pp, raised |-> None ]
    ELSE LET player == gd.players[i]
             seat_index == CircleSeatIndex(cfg, map, player)
             at == _get_safe_seat_position(cfg, seat_index)
             color == PlayerColor(gd, player)
         IN  CirclesLoop(gd, cfg, map, i + 1,
                 img \o BackgroundCircle(at, color),
                 Append(pp, [ at |-> at, color |-> color, player |-> i,
                              seat_index |-> seat_index ]))

draw_player_circles(gd, cfg, img) ==
    CirclesLoop(gd, cfg, get_position_mapping(gd), 1, img, << >>)

\* player.get(field, default)
Get(player, field, default) ==
    IF field \in DOMAIN player THEN player[field] ELSE default

\* _draw_player_info: the position code and f"{stack:.1f} BB" of the panel,
\* the amount in tenths
Panel(at, color, player) ==
    [ kind |-> "panel", at |-> at, color |-> color, text |-> player.position,
      stack |-> Get(player, "current_stack", 0) ]

\* the deprecated draw_players: disc and panel of each player in turn
RECURSIVE PlayersLoop(_, _, _, _, _)
PlayersLoop(gd, cfg, map, i, img) ==
    IF i > Len(gd.players) THEN [ img |-> img, raised |-> None ]
    ELSE LET player == gd.players[i]
             seat_index == IF player.is_hero THEN 0
                           ELSE IF player.position \in DOMAIN map
                                THEN map[player.position]
                                ELSE 8
             at == _get_safe_seat_position(cfg, seat_index)
             color == PlayerColor(gd, player)
         IN  PlayersLoop(gd, cfg, map, i + 1,
                 img \o BackgroundCircle(at, color) \o << Panel(at, color, player) >>)

draw_players(gd, cfg, img) == PlayersLoop(gd, cfg, get_position_mapping(gd), 1, img)

\* def draw_player_rectangles(self): the method accepts no keyword argument;
\* has_positions: the drawer has run draw_player_circles, pp is what it stored
draw_player_rectangles(gd, cfg, img, has_positions, pp, kwargs) ==
    IF kwargs # {} THEN [ img |-> img, raised |-> "TypeError" ]
    ELSE IF ~has_positions THEN draw_players(gd, cfg, img)
    ELSE [ img |-> img \o [ i \in 1..Len(pp) |->
                              Panel(pp[i].at, pp[i].color, gd.players[pp[i].player]) ],
           raised |-> None ]

----------------------------------------------------------------------------
(* CardDrawer *)

\* draw_card_back: the preloaded back.png, else _draw_fallback_card_back
CardBack(at, rotation) ==
    [ kind |-> "card_back", at |-> at, rotation |-> rotation,
      drawn |-> IF exists(CardBackPath) THEN "image" ELSE "fallback" ]

CardBacks(at) == << CardBack(at, 5), CardBack(at, -5) >>

RECURSIVE CardsLoop(_, _, _, _, _)
CardsLoop(gd, cfg, map, i, img) ==
    IF i > Len(gd.players) THEN [ img |-> img, raised |-> None ]
    ELSE LET player == gd.players[i]
         IN  IF player.is_hero \/ player.is_folded \/ player.position \notin DOMAIN map
             THEN CardsLoop(gd, cfg, map, i + 1, img)
             ELSE IF map[player.position] >= Len(cfg.seat_positions)
                  THEN [ img |-> img, raised |-> "IndexError" ]
                  ELSE CardsLoop(gd, cfg, map, i + 1,
                          img \o CardBacks(cfg.seat_positions[map[player.position] + 1]))

draw_player_cards(gd, cfg, img) ==
    CardsLoop(gd, cfg, get_position_mapping(gd), 1, img)

draw_card(img, card) ==
    IF ~Truthy(card) THEN img
    ELSE Append(img, [ kind |-> "hero_card", card |-> card,
                       drawn |-> IF exists(CardPath(card)) THEN "image"
                                 ELSE "fallback" ])

draw_hero_cards(gd, card1, card2, img) ==
    IF gd.hero = 0 \/ ~(Truthy(card1) /\ Truthy(card2)) THEN img
    ELSE draw_card(draw_card(img, card1), card2)

----------------------------------------------------------------------------
(* ChipDrawer.  Amounts are floats in the code; the model holds the float  *)
(* nearest to t/10 as the integer t (tenths of a big blind).               *)

denominations == << 1000, 500, 100, 50, 10, 5, 1 >>

\* Binary exponent of the float nearest to t/10 (t >= 1): that float is
\* m * 2^-(56-p) with 2^52 <= m < 2^53, where p is the largest number with
\* 5 * 2^p <= 8 * t.
RECURSIVE BinExp(_, _)
BinExp(t, p) == IF 5 * (2 ^ (p + 1)) <= 8 * t THEN BinExp(t, p + 1) ELSE p

Pow2Mod10(e) == CASE e % 4 = 0 -> 6 [] e % 4 = 1 -> 2 [] e % 4 = 2 -> 4 [] OTHER -> 8

\* Rounding error of that float, in units of 2^-(56-p) / 10: the mantissa is
\* (t * 2^(56-p) + FloatErr(t)) / 10, rounded to nearest.
FloatErr(t) ==
    LET r == (t * Pow2Mod10(56 - BinExp(t, 0))) % 10
    IN  IF r < 5 THEN 0 - r ELSE 10 - r

\* remaining // 0.1 on floats: 0.1 is stored as (2^56 + 4) / (10 * 2^56), a
\* little above one tenth, so the quotient reaches t only when the float of
\* t/10 is at least t times that: 4 * t <= FloatErr(t) * 2^p.
FloorDivTenth(t) ==
    IF t <= 0 THEN 0
    ELSE IF 4 * t <= FloatErr(t) * (2 ^ BinExp(t, 0)) THEN t ELSE t - 1

\* int(remaining // denom): the denominations from 0.5 up are exact floats
FloorDiv(remaining, denom) ==
    IF denom = 1 THEN FloorDivTenth(remaining) ELSE remaining \div denom

Repeat(x, n) == [ i \in 1..n |-> x ]

RECURSIVE Decompose(_, _, _)
Decompose(remaining, d, stack) ==
    IF d > Len(denominations) THEN [ stack |-> stack, remaining |-> remaining ]
    ELSE LET denom == denominations[d]
             count == FloorDiv(remaining, denom)
         IN  IF count # 0
             THEN Decompose(remaining - count * denom, d + 1,
                            stack \o Repeat(denom, count))
             ELSE Decompose(remaining, d + 1, stack)

\* f"{chips:.1f} BB" if chips < 10 else f"{chips:.0f} BB", as the amount the
\* text shows, in tenths; .0f rounds a half to the even integer
ChipText(t) ==
    IF t < 100 THEN t
    ELSE LET q == t \div 10
             f == t % 10
         IN  IF f < 5 THEN 10 * q
             ELSE IF f > 5 THEN 10 * (q + 1)
             ELSE IF q % 2 = 0 THEN 10 * q ELSE 10 * (q + 1)

ChipLayers(at, stack) ==
    [ idx \in 1..Len(stack) |->
        [ kind |-> "chip", at |-> at, denom |-> stack[idx], idx |-> idx - 1 ] ]

\* the seat of a player's chips; -1 stands for the ValueError raised for a
\* position the mapping lacks
ChipSeatIndex(cfg, map, player) ==
    IF player.is_hero THEN 0
    ELSE IF player.position \in DOMAIN map THEN map[player.position]
    ELSE -1

RECURSIVE ChipsLoop(_, _, _, _, _, _)
ChipsLoop(gd, cfg, map, i, img, st) ==
    IF i > Len(gd.players) THEN [ img |-> img, raised |-> None, stacks |-> st ]
    ELSE LET player == gd.players[i]
             chips == player.chips_on_table
             seat_index == ChipSeatIndex(cfg, map, player)
         IN  IF chips <= 0 THEN ChipsLoop(gd, cfg, map, i + 1, img, st)
             ELSE IF seat_index < 0
                  THEN [ img |-> img, raised |-> "ValueError", stacks |-> st ]
             ELSE IF seat_index >= Len(cfg.seat_positions)
                  THEN [ img |-> img, raised |-> "IndexError", stacks |-> st ]
             ELSE LET at == cfg.seat_positions[seat_index + 1]
                      stack == Decompose(chips, 1, << >>).stack
                  IN  ChipsLoop(gd, cfg, map, i + 1,
                          (img \o ChipLayers(at, stack))
                              \o << [ kind |-> "chip_label", at |-> at,
                                      text |-> ChipText(chips) ] >>,
                          Put(st, i, stack))

draw_player_chips(gd, cfg, img) ==
    ChipsLoop(gd, cfg, get_position_mapping(gd), 1, img, EmptyDict)

----------------------------------------------------------------------------
(* TableDrawer *)

Background == [ kind |-> "background" ]

Transparent == [ kind |-> "transparent" ]

\* Image.alpha_composite(a, b): the layers of b over those of a
alpha_composite(a, b) == a \o SelectSeq(b, LAMBDA l : l # Transparent)

draw_table_text(gd, img) ==
    img \o << [ kind |-> "scenario", players_left |-> Len(gd.players) ],
              [ kind |-> "pot", text |-> gd.pot ] >>

\* draw_table replaces the drawer's image by a fresh background
draw_table(gd, img, draw_text) ==
    LET table == << [ kind |-> "table_background" ], [ kind |-> "table" ] >>
                    \o (IF exists(LogoPath) THEN << [ kind |-> "logo" ] >> ELSE << >>)
    IN  IF draw_text THEN draw_table_text(gd, table) ELSE table

----------------------------------------------------------------------------
(* PokerTableVisualizer *)

Key(gd) == << gd.num_players, HeroPosition(gd) >>

NoFile == [ layers |-> NoImage, width |-> 0, height |-> 0 ]

\* _init_drawers: the card drawer is rebuilt with the current card values
_init_drawers(v) ==
    [ v EXCEPT !.card_drawer = [ card1 |-> v.card1, card2 |-> v.card2 ] ]

PokerTableVisualizer(json_data, card1, card2, output_path, scale_factor) ==
    _init_drawers(
        [ card1 |-> card1,
          card2 |-> card2,
          output_path |-> output_path,
          config |-> PokerTableConfig(scale_factor, Len(json_data.players)),
          img |-> << Background >>,
          game_data |-> process_game_data(json_data),
          fonts |-> load_fonts,
          card_drawer |-> [ card1 |-> None, card2 |-> None ],
          template_base |-> NoImage,
          rectangles_overlay |-> NoImage,
          template_image |-> NoImage ])

\* The frame of a running call: the instance, the exception in flight, what
\* the call has executed and written so far.
Enter(v, tkey, skey) ==
    [ self |-> v, raised |-> None, returned |-> None, ops |-> << >>,
      saved |-> NoFile, tkey |-> tkey, skey |-> skey ]

refresh(r) ==
    IF r.raised # None THEN r
    ELSE LET v == r.self
             img == IF v.template_base # NoImage THEN v.template_base
                    ELSE << Background >>
         IN  [ r EXCEPT !.self = _init_drawers([ v EXCEPT !.img = img ]),
                        !.skey = IF v.template_base # NoImage THEN r.tkey ELSE NoKey ]

create_template(r) ==
    IF r.raised # None THEN r
    ELSE LET gd == r.self.game_data
             cfg == r.self.config
             table == draw_table(gd, << Background >>, FALSE)
             circles == draw_player_circles(gd, cfg, table)
             cards == draw_player_cards(gd, cfg, circles.img)
             drawn == r.ops \o << "draw_table", "draw_player_circles",
                                  "draw_player_cards" >>
             rect == draw_player_rectangles(gd, cfg, << Transparent >>, FALSE,
                                            << >>, { "draw_info" })
             based == [ r.self EXCEPT !.template_base = cards.img ]
         IN  IF cards.raised # None
             THEN [ r EXCEPT !.raised = cards.raised, !.ops = drawn ]
             ELSE IF rect.raised # None
             THEN [ r EXCEPT !.self = based, !.raised = rect.raised,
                             !.ops = drawn, !.tkey = Key(gd) ]
             ELSE [ r EXCEPT
                      !.self = [ based EXCEPT
                                   !.rectangles_overlay = rect.img,
                                   !.template_image =
                                       alpha_composite(cards.img, rect.img) ],
                      !.ops = Append(drawn, "draw_player_rectangles"),
                      !.tkey = Key(gd),
                      !.returned = "template_image" ]

\* if not self.template_image: create_template(); refresh()
EnsureTemplate(r) ==
    IF r.raised # None \/ r.self.template_image # NoImage THEN r
    ELSE refresh(create_template(r))

HeroCardsStep(r) ==
    IF r.raised # None \/ ~(Truthy(r.self.card1) /\ Truthy(r.self.card2)) THEN r
    ELSE [ r EXCEPT !.self.img = draw_hero_cards(r.self.game_data,
                                     r.self.card_drawer.card1,
                                     r.self.card_drawer.card2, r.self.img),
                    !.ops = Append(r.ops, "draw_hero_cards") ]

OverlayStep(r) ==
    IF r.raised # None \/ r.self.rectangles_overlay = NoImage THEN r
    ELSE [ r EXCEPT !.self.img = alpha_composite(r.self.img,
                                                 r.self.rectangles_overlay),
                    !.ops = Append(r.ops, "rectangles_overlay") ]

\* self.player_drawer.draw_player_text(): PlayerDrawer defines no such method
PlayerTextStep(r) ==
    IF r.raised # None THEN r
    ELSE [ r EXCEPT !.raised = "AttributeError" ]

ChipsStep(r) ==
    IF r.raised # None THEN r
    ELSE LET chips == draw_player_chips(r.self.game_data, r.self.config, r.self.img)
         IN  IF chips.raised # None
             THEN [ r EXCEPT !.raised = chips.raised,
                             !.ops = Append(r.ops, "draw_player_chips") ]
             ELSE [ r EXCEPT !.self.img = chips.img,
                             !.ops = Append(r.ops, "draw_player_chips") ]

TableTextStep(r) ==
    IF r.raised # None THEN r
    ELSE [ r EXCEPT !.self.img = draw_table_text(r.self.game_data, r.self.img),
                    !.ops = Append(r.ops, "draw_table_text") ]

\* the single downsample, then img.save(output_path) and return output_path
SaveStep(r) ==
    IF r.raised # None THEN r
    ELSE LET cfg == r.self.config
             resized == cfg.scale_factor > 1
         IN  [ r EXCEPT
                 !.ops = IF resized THEN Append(r.ops, "resize") ELSE r.ops,
                 !.saved = [ layers |-> r.self.img,
                             width |-> IF resized THEN base_width ELSE cfg.width,
                             height |-> IF resized THEN base_height ELSE cfg.height ],
                 !.returned = r.self.output_path ]

create_visualization(r) ==
    SaveStep(TableTextStep(ChipsStep(PlayerTextStep(OverlayStep(HeroCardsStep(
        EnsureTemplate(refresh(r))))))))

----------------------------------------------------------------------------
(* Game states the callers hand in *)

ExtraPositions == << "UTG+3", "UTG+4", "UTG+5" >>

\* position codes of an n-player game state, in action order
PositionsOf(n) ==
    IF n \in 2..9 THEN standard_positions_by_count(n)
    ELSE IF n = 1 THEN << "BB" >>
    ELSE standard_positions_by_count(9) \o SubSeq(ExtraPositions, 1, n - 9)

\* n players, player h the hero (0: none), player u with the position code
\* uval instead of its own (0: none), player f folded (0: none), player c
\* with t tenths of a big blind on the table (0: none)
MkGame(n, h, u, uval, f, c, t) ==
    [ players |-> [ i \in 1..n |->
                      [ position |-> IF i = u THEN uval ELSE PositionsOf(n)[i],
                        is_hero |-> i = h,
                        is_folded |-> i = f,
                        is_active |-> FALSE,
                        chips_on_table |-> IF i = c THEN t ELSE 0 ] ],
      pot |-> 15,
      active_position |-> "" ]

UnknownCodes == { "XX", None }

CardPairs == { << "Ah", "Kd" >>, << "As", "Kd" >>, << None, None >> }

ScaleFactors == { 1, 2 }

\* valid game states: the hero first or second to act, nobody or the last
\* player folded, and no bet or 2.6 BB in front of the first player
MainGames ==
    { MkGame(n, h, 0, None, f * n, c, 26) :
        n \in 2..MainPlayers, h \in 1..2, f \in 0..1, c \in 0..1 }

\* n players in canonical positions with any flags: player h the hero, the
\* players of F folded, those of A flagged active, ap the active position
MkFlagGame(n, h, F, A, ap) ==
    [ players |-> [ i \in 1..n |->
                      [ position |-> PositionsOf(n)[i],
                        is_hero |-> i = h,
                        is_folded |-> i \in F,
                        is_active |-> i \in A,
                        chips_on_table |-> 0 ] ],
      pot |-> 15,
      active_position |-> ap ]

ActivePositions == { "", "SB", "BB" }

\* names of the directories of a solution path
DirNames == { "MTT_PCT50", "MTT_PCT_FT", "MTT_START", "cash_FT", "depth_20", "depth_x",
              "preflop" }

\* solution paths of up to two directories, and the empty string
SolutionPaths ==
    { << >> } \cup { << a >> : a \in DirNames }
              \cup { p \in DirNames \X DirNames : p[1] # p[2] }

\* two-player game states with any hero, the first player folded or not
DataGames ==
    { MkFlagGame(2, h, F, {}, "") : h \in 0..2, F \in { {}, { 1 } } }

\* stack sizes in tenths of a big blind
StackValues == { 0, 255, 1000 }

\* n players in canonical positions, player h the hero, each with the stack
\* s; the first player also has the field current_stack = cs unless cs is
\* negative
MkStackGame(n, h, s, cs) ==
    [ players |-> [ i \in 1..n |->
                      IF i = 1 /\ cs >= 0
                      THEN [ position |-> PositionsOf(n)[i],
                             is_hero |-> i = h,
                             is_folded |-> FALSE,
                             is_active |-> FALSE,
                             chips_on_table |-> 0,
                             stack |-> s,
                             current_stack |-> cs ]
                      ELSE [ position |-> PositionsOf(n)[i],
                             is_hero |-> i = h,
                             is_folded |-> FALSE,
                             is_active |-> FALSE,
                             chips_on_table |-> 0,
                             stack |-> s ] ],
      pot |-> 15,
      active_position |-> "" ]

----------------------------------------------------------------------------
(* hand_image_server *)

\* app.run(...): the development server handles each request in a thread of
\* its own
Threads == { 1, 2 }

\* the solution files under poker_solutions/<game_type>/...
SolutionFiles == { "a.json", "b.json", "c.json" }

GameTypeOf(file) == IF file = "c.json" THEN "CASH" ELSE "MTT"

\* load_clean_json(path)
load_clean_json(file) ==
    CASE file = "a.json" -> MkGame(2, 1, 0, None, 0, 1, 26)
      [] file = "b.json" -> [ MkGame(2, 2, 0, None, 0, 0, 0) EXCEPT !.pot = 30 ]
      [] OTHER -> MkGame(3, 1, 0, None, 0, 0, 0)

\* the first JSON file init_visualizer_cache finds for each game type
TemplateFiles == << "a.json", "c.json" >>

\* tempfile.NamedTemporaryFile(suffix=".png", delete=False).name
TempName(k) ==
    CASE k = 0 -> "tmp0.png" [] k = 1 -> "tmp1.png" [] k = 2 -> "tmp2.png"
      [] k = 3 -> "tmp3.png" [] k = 4 -> "tmp4.png" [] OTHER -> "tmp5.png"

\* the suits convert_hand_to_cards may pick for one hand
HandCards == { << "Ah", "Kd" >>, << "As", "Kd" >> }

\* a PokerTableVisualizer as the server holds it: the instance, and the
\* attributes the server reads and writes on it
ServerVisualizer(json_data, card1, card2, output_path, solution_path) ==
    [ self |-> PokerTableVisualizer(json_data, card1, card2, output_path, 1),
      solution_path |-> solution_path,
      data |-> json_data,
      game_data_json_data |-> None,
      game_data_solution_path |-> solution_path ]

NoCacheKey == << None, 0 >>

\* game_data of a game without players
NoGame == process_game_data([ players |-> << >>, pot |-> 0, active_position |-> "" ])

RECURSIVE CacheInitLoop(_, _)
CacheInitLoop(cache, i) ==
    IF i > Len(TemplateFiles) THEN cache
    ELSE LET json_data == load_clean_json(TemplateFiles[i])
             cache_key == << GameTypeOf(TemplateFiles[i]), Len(json_data.players) >>
             visualizer == ServerVisualizer(json_data, "Ah", "Kh", TempName(0),
                                            TemplateFiles[i])
             made == create_template(Enter(visualizer.self, NoKey, NoKey))
         IN  IF cache_key \in DOMAIN cache \/ made.raised # None
             THEN CacheInitLoop(cache, i + 1)
             ELSE CacheInitLoop(Put(cache, cache_key,
                                    [ visualizer EXCEPT !.self = made.self ]), i + 1)

\* init_visualizer_cache(): an exception of create_template is logged and
\* the visualizer is not stored
init_visualizer_cache == CacheInitLoop(EmptyDict, 1)

\* a thread that handles no request; rendered_with and rendered_game are
\* the card1, card2, output_path and solution_path, and the game_data, of the
\* visualizer at the moment the request calls its render method
IdleRequest ==
    [ pc |-> "idle", file |-> None, card1 |-> None, card2 |-> None,
      output_path |-> None, cache_key |-> NoCacheKey, reuse |-> FALSE,
      status |-> 0, error |-> None,
      rendered_with |-> << >>, rendered_game |-> NoGame ]

\* the next statement of create_visualization_from_json in thread t
ServerStep(s, t) ==
    LET r == s.req[t]
        original_json == load_clean_json(r.file)
        cache_key == << GameTypeOf(r.file), Len(original_json.players) >>
        cached == s.visualizer_cache[r.cache_key]
        Goto(pc) == [ s EXCEPT !.req[t].pc = pc ]
    IN  CASE r.pc = "lookup" ->
               LET q == [ r EXCEPT
                            !.cache_key = cache_key,
                            !.reuse = \E e \in s.served :
                                          e[1] = cache_key /\ e[2] # r.file ]
               IN  IF cache_key \in DOMAIN s.visualizer_cache
                   THEN [ s EXCEPT !.req[t] = [ q EXCEPT !.pc = "set_card1" ] ]
                   ELSE LET visualizer == ServerVisualizer(original_json, r.card1, r.card2,
                                                           r.output_path, r.file)
                            made == create_template(Enter(visualizer.self, NoKey, NoKey))
                        IN  IF made.raised # None
                            THEN [ s EXCEPT !.req[t] = [ q EXCEPT !.pc = "done",
                                                                !.status = 500,
                                                                !.error = made.raised ] ]
                            ELSE [ s EXCEPT
                                     !.visualizer_cache =
                                         Put(@, cache_key,
                                             [ visualizer EXCEPT !.self = made.self ]),
                                     !.req[t] = [ q EXCEPT !.pc = "render" ] ]
          [] r.pc = "set_card1" ->
               [ Goto("set_card2") EXCEPT
                   !.visualizer_cache[r.cache_key].self.card1 = r.card1 ]
          [] r.pc = "set_card2" ->
               [ Goto("set_output_path") EXCEPT
                   !.visualizer_cache[r.cache_key].self.card2 = r.card2 ]
          [] r.pc = "set_output_path" ->
               [ Goto("check_solution_path") EXCEPT
                   !.visualizer_cache[r.cache_key].self.output_path = r.output_path ]
          [] r.pc = "check_solution_path" ->
               IF cached.solution_path # r.file
               THEN Goto("set_solution_path") ELSE Goto("render")
          [] r.pc = "set_solution_path" ->
               [ Goto("render") EXCEPT
                   !.visualizer_cache[r.cache_key] =
                       [ @ EXCEPT !.solution_path = r.file,
                                  !.data = original_json,
                                  !.game_data_json_data = r.file,
                                  !.game_data_solution_path = r.file ] ]
          [] OTHER ->
               \* visualizer.create_visualization_bytes(): no such method
               [ s EXCEPT !.req[t] =
                   [ r EXCEPT !.pc = "done",
                              !.status = 500,
                              !.error = "AttributeError",
                              !.rendered_with = << cached.self.card1, cached.self.card2,
                                                   cached.self.output_path,
                                                   cached.solution_path >>,
                              !.rendered_game = cached.self.game_data ] ]

----------------------------------------------------------------------------
(* batch_visualizer *)

\* What the run meets at one solution file.  early: "raise" when a step
\* before the hands raises (unreadable JSON, no best_action column, ...),
\* "empty" when no hand passes the filters, "ok" otherwise; hands: the number
\* of hands selected; summary_ok: summary.txt can be written.
SolutionKinds ==
    { [ early |-> "raise", hands |-> 0, summary_ok |-> TRUE ],
      [ early |-> "empty", hands |-> 0, summary_ok |-> TRUE ] }
    \cup { [ early |-> "ok", hands |-> h, summary_ok |-> w ] :
             h \in 1..MaxHands, w \in BOOLEAN }

\* the solution JSON of the files
clean_json == MkGame(3, 2, 0, None, 0, 1, 26)

\* the cards of the i-th selected hand
CardsOfHand(i) == IF i % 2 = 1 THEN << "Ah", "Kd" >> ELSE << "As", "Kd" >>

\* create_single_visualization(args) in a worker process: the frame of its
\* create_visualization() call
create_single_visualization(i) ==
    create_visualization(
        Enter(PokerTableVisualizer(clean_json, CardsOfHand(i)[1], CardsOfHand(i)[2],
                                   TempName(i), 1),
              NoKey, NoKey))

\* process_solution_file(file_path) with the stats before the call: the
\* stats after it, its return value (-1: None) and what it left behind
process_solution_file(file, stats) ==
    LET nothing == [ file |-> file, images |-> {}, logged |-> {}, csv |-> FALSE,
                     summary |-> FALSE, file_error |-> FALSE, returned |-> 0 ]
        skipped == [ stats EXCEPT !.skipped_files = @ + 1 ]
    IN  IF file.early = "raise"
        THEN [ stats |-> skipped, outcome |-> [ nothing EXCEPT !.file_error = TRUE ] ]
        ELSE IF file.early = "empty"
        THEN [ stats |-> skipped, outcome |-> [ nothing EXCEPT !.returned = 0 - 1 ] ]
        ELSE LET hands == 1..file.hands
                 failed == { i \in hands : create_single_visualization(i).raised # None }
                 rendered == [ nothing EXCEPT !.csv = TRUE,
                                              !.images = hands \ failed,
                                              !.logged = failed ]
                 counted == [ stats EXCEPT !.processed_files = @ + 1 ]
             IN  IF file.summary_ok
                 THEN [ stats |-> counted,
                        outcome |-> [ rendered EXCEPT !.summary = TRUE,
                                                      !.returned = file.hands ] ]
                 ELSE [ stats |-> [ counted EXCEPT !.skipped_files = @ + 1 ],
                        outcome |-> [ rendered EXCEPT !.file_error = TRUE ] ]

----------------------------------------------------------------------------
(* desk-upload: upload_single_image_with_retry *)

\* What creator.upload_image(image_file) does in one attempt: it returns the
\* media id of the response ("id"), returns None when the response has no
\* id ("no_id"), raises Exception with one of two messages ("http_500",
\* "no_response"), or calls exit(1) because the image and the fallback
\* directory are missing ("exit").
UploadOutcomes == { "id", "no_id", "http_500", "no_response", "exit" }

\* UploadResult(index, image_file, hand): media_id None, success False,
\* error None, attempts 0
UploadResult ==
    [ media_id |-> None, success |-> FALSE, error |-> None, attempts |-> 0 ]

\* one pass of the loop body `for attempt in range(max_retries)`, the
\* upload_image call ending as outcome; logged counts the messages written
\* under the lock
UploadAttempt(u, outcome) ==
    LET attempt == u.attempt
        started == [ u EXCEPT !.result.attempts = attempt + 1,
                              !.attempt = attempt + 1,
                              !.outcomes = Append(@, outcome),
                              !.logged = IF u.lock THEN @ + 1 ELSE @ ]
    IN  CASE outcome \in { "id", "no_id" } ->
               [ started EXCEPT
                   !.result.media_id = IF outcome = "id" THEN "media-1" ELSE None,
                   !.result.success = TRUE,
                   !.logged = IF u.lock THEN @ + 1 ELSE @,
                   !.pc = "returned" ]
          [] outcome = "exit" ->
               [ started EXCEPT !.pc = "SystemExit" ]
          [] OTHER ->
               [ started EXCEPT
                   !.result.error = outcome,
                   !.logged = IF u.lock THEN @ + 1 ELSE @ ]

----------------------------------------------------------------------------
(* Operations *)

\* the other programs are not running
Detached ==
    /\ processor = None
    /\ server = None
    /\ batch = None
    /\ upload = None

Fresh(v) ==
    /\ viz = v
    /\ call = ""
    /\ raised = None
    /\ returned = None
    /\ ops = << >>
    /\ saved = NoFile
    /\ calls = 0
    /\ position_to_seat = EmptyDict
    /\ player_positions = << >>
    /\ stacks = EmptyDict
    /\ template_key = NoKey
    /\ start_key = NoKey

\* the visualizer under test is not used
Unused ==
    Fresh(PokerTableVisualizer(MkGame(2, 1, 0, None, 0, 0, 0), "Ah", "Kd", "out.png", 1))

Commit(name, r) ==
    /\ viz' = r.self
    /\ call' = name
    /\ raised' = r.raised
    /\ returned' = r.returned
    /\ ops' = r.ops
    /\ saved' = r.saved
    /\ template_key' = r.tkey
    /\ start_key' = r.skey

\* visualizer.create_visualization()
CreateVisualization ==
    /\ calls < MaxCalls
    /\ Commit("create_visualization", create_visualization(Enter(viz, template_key, NoKey)))
    /\ calls' = calls + 1
    /\ UNCHANGED << position_to_seat, player_positions, stacks, files, others >>

\* visualizer.create_template(), as the image server calls it
CreateTemplate ==
    /\ calls < MaxCalls
    /\ Commit("create_template", create_template(Enter(viz, template_key, NoKey)))
    /\ calls' = calls + 1
    /\ UNCHANGED << position_to_seat, player_positions, stacks, files, others >>

\* visualizer.game_data.update_data(json_data)
UpdateData(json_data) ==
    /\ calls < MaxCalls
    /\ viz' = [ viz EXCEPT !.game_data = process_game_data(json_data) ]
    /\ call' = "update_data"
    /\ raised' = None
    /\ returned' = None
    /\ ops' = << >>
    /\ saved' = NoFile
    /\ start_key' = NoKey
    /\ calls' = calls + 1
    /\ UNCHANGED << position_to_seat, player_positions, stacks, template_key, files, others >>

\* visualizer.card1 = card1; visualizer.card2 = card2
SetCards(pair) ==
    /\ calls < MaxCalls
    /\ << viz.card1, viz.card2 >> # pair
    /\ viz' = [ viz EXCEPT !.card1 = pair[1], !.card2 = pair[2] ]
    /\ call' = "set_cards"
    /\ raised' = None
    /\ returned' = None
    /\ ops' = << >>
    /\ saved' = NoFile
    /\ start_key' = NoKey
    /\ calls' = calls + 1
    /\ UNCHANGED << position_to_seat, player_positions, stacks, template_key, files, others >>

\* The drawer calls below are made on a freshly built instance.

\* game_data.get_position_mapping()
GetPositionMapping ==
    /\ call = ""
    /\ call' = "get_position_mapping"
    /\ position_to_seat' = get_position_mapping(viz.game_data)
    /\ UNCHANGED << viz, raised, ops, returned, saved, calls, player_positions, stacks,
                    template_key, start_key, files, others >>

\* player_drawer.draw_player_circles() on the instance's image
DrawPlayerCircles ==
    LET res == draw_player_circles(viz.game_data, viz.config, viz.img)
    IN  /\ call = ""
        /\ call' = "draw_player_circles"
        /\ position_to_seat' = get_position_mapping(viz.game_data)
        /\ player_positions' = res.player_positions
        /\ raised' = res.raised
        /\ ops' = << "draw_player_circles" >>
        /\ viz' = [ viz EXCEPT !.img = res.img ]
        /\ UNCHANGED << returned, saved, calls, stacks, template_key, start_key,
                        files, others >>

\* chip_drawer.draw_player_chips() on the instance's image
DrawPlayerChips ==
    LET res == draw_player_chips(viz.game_data, viz.config, viz.img)
    IN  /\ call = ""
        /\ call' = "draw_player_chips"
        /\ position_to_seat' = get_position_mapping(viz.game_data)
        /\ stacks' = res.stacks
        /\ raised' = res.raised
        /\ ops' = << "draw_player_chips" >>
        /\ viz' = IF res.raised = None THEN [ viz EXCEPT !.img = res.img ] ELSE viz
        /\ UNCHANGED << returned, saved, calls, player_positions, template_key,
                        start_key, files, others >>

\* card_drawer.draw_hero_cards() on the instance's image
DrawHeroCards ==
    /\ call = ""
    /\ call' = "draw_hero_cards"
    /\ viz' = [ viz EXCEPT !.img = draw_hero_cards(viz.game_data, viz.card_drawer.card1,
                                                  viz.card_drawer.card2, viz.img) ]
    /\ ops' = << "draw_hero_cards" >>
    /\ UNCHANGED << raised, returned, saved, calls, position_to_seat, player_positions,
                    stacks, template_key, start_key, files, others >>

\* card_drawer.draw_player_cards() on the instance's image
DrawPlayerCards ==
    LET res == draw_player_cards(viz.game_data, viz.config, viz.img)
    IN  /\ call = ""
        /\ call' = "draw_player_cards"
        /\ position_to_seat' = get_position_mapping(viz.game_data)
        /\ raised' = res.raised
        /\ ops' = << "draw_player_cards" >>
        /\ viz' = [ viz EXCEPT !.img = res.img ]
        /\ UNCHANGED << returned, saved, calls, player_positions, stacks, template_key,
                        start_key, files, others >>

\* player_drawer.draw_player_rectangles(), on a fresh instance or after
\* draw_player_circles()
DrawPlayerRectangles ==
    LET res == draw_player_rectangles(viz.game_data, viz.config, viz.img,
                                      call = "draw_player_circles", player_positions, {})
    IN  /\ call \in { "", "draw_player_circles" }
        /\ raised = None
        /\ call' = "draw_player_rectangles"
        /\ position_to_seat' = get_position_mapping(viz.game_data)
        /\ raised' = res.raised
        /\ ops' = Append(ops, "draw_player_rectangles")
        /\ viz' = [ viz EXCEPT !.img = res.img ]
        /\ UNCHANGED << returned, saved, calls, player_positions, stacks, template_key,
                        start_key, files, others >>

\* table_drawer.draw_table() on the instance's image
DrawTable ==
    /\ call = ""
    /\ call' = "draw_table"
    /\ viz' = [ viz EXCEPT !.img = draw_table(viz.game_data, viz.img, TRUE) ]
    /\ ops' = << "draw_table" >>
    /\ UNCHANGED << raised, returned, saved, calls, position_to_seat, player_positions,
                    stacks, template_key, start_key, files, others >>

\* processor.update_data(json_data, solution_path); op and prior record the
\* call and the parsed fields the instance had before it
ProcessorUpdateData(json_data, solution_path) ==
    /\ processor' = [ op |-> "update_data",
                      prior |-> << processor.self.parsed_avg_stack,
                                   processor.self.parsed_field_left >>,
                      self |-> update_data(processor.self, json_data, solution_path) ]
    /\ UNCHANGED << drawing, server, batch, upload >>

\* POST /generate_image reaches thread t: generate_image() up to the cache
\* lookup.  valid: the JSON has the required metadata; file: the solution
\* file found for it (None: none found); pair: the cards chosen for the hand
ReceiveRequest(t, valid, file, pair) ==
    /\ server.req[t].pc = "idle"
    /\ server.received < MaxRequests
    /\ server' =
         [ server EXCEPT
             !.received = @ + 1,
             !.req[t] =
                 IF ~valid
                 THEN [ IdleRequest EXCEPT !.pc = "done", !.status = 400 ]
                 ELSE [ IdleRequest EXCEPT
                          !.pc = IF file = None THEN "done" ELSE "lookup",
                          !.status = IF file = None THEN 500 ELSE 0,
                          !.file = file,
                          !.card1 = pair[1],
                          !.card2 = pair[2],
                          !.output_path = TempName(server.received + 1) ] ]
    /\ UNCHANGED << drawing, processor, batch, upload >>

\* thread t executes its next statement
RequestStep(t) ==
    /\ server.req[t].pc \notin { "idle", "done" }
    /\ server' = ServerStep(server, t)
    /\ UNCHANGED << drawing, processor, batch, upload >>

\* thread t sends its response and is free again
SendResponse(t) ==
    /\ server.req[t].pc = "done"
    /\ server' =
         [ server EXCEPT
             !.req[t] = IdleRequest,
             !.served = IF server.req[t].cache_key = NoCacheKey THEN @
                        ELSE @ \cup { << server.req[t].cache_key, server.req[t].file >> } ]
    /\ UNCHANGED << drawing, processor, batch, upload >>

\* BatchVisualizer.run() starts: the files are listed and counted
StartRun(solution_files) ==
    /\ batch.phase = "new"
    /\ batch' = [ batch EXCEPT !.phase = "running",
                               !.pending = solution_files,
                               !.stats.total_files = Len(solution_files) ]
    /\ UNCHANGED << drawing, processor, server, upload >>

\* the loop of run(): process_solution_file on the next file
ProcessSolutionFile ==
    /\ batch.phase = "running"
    /\ batch.pending # << >>
    /\ LET res == process_solution_file(Head(batch.pending), batch.stats)
       IN  batch' = [ batch EXCEPT !.pending = Tail(@),
                                   !.stats = res.stats,
                                   !.outcomes = Append(@, res.outcome) ]
    /\ UNCHANGED << drawing, processor, server, upload >>

\* run() logs the final stats and returns
FinishRun ==
    /\ batch.phase = "running"
    /\ batch.pending = << >>
    /\ batch' = [ batch EXCEPT !.phase = "finished" ]
    /\ UNCHANGED << drawing, processor, server, upload >>

\* one attempt of upload_single_image_with_retry
Attempt(outcome) ==
    /\ upload.pc = "loop"
    /\ upload.attempt < upload.max_retries
    /\ upload' = UploadAttempt(upload, outcome)
    /\ UNCHANGED << drawing, processor, server, batch >>

\* the loop is over: return result
ReturnResult ==
    /\ upload.pc = "loop"
    /\ upload.attempt >= upload.max_retries
    /\ upload' = [ upload EXCEPT !.pc = "returned" ]
    /\ UNCHANGED << drawing, processor, server, batch >>

----------------------------------------------------------------------------
(* Specifications *)

\* one visualizer, built for a valid game state, used and reused by its caller
Init ==
    /\ files = AllAssets
    /\ Detached
    /\ \E json \in MainGames, pair \in CardPairs, sf \in ScaleFactors :
        /\ FindHero(json.players) # 0
        /\ Fresh(PokerTableVisualizer(json, pair[1], pair[2], "out.png", sf))

Next ==
    \/ CreateVisualization
    \/ CreateTemplate
    \/ \E json \in MainGames :
          /\ FindHero(json.players) # 0
          /\ Key(process_game_data(json)) # Key(viz.game_data)
          /\ UpdateData(json)
    \/ \E json \in MainGames :
          /\ FindHero(json.players) # 0
          /\ Key(process_game_data(json)) = Key(viz.game_data)
          /\ json.players # viz.game_data.players
          /\ UpdateData(json)
    \/ \E pair \in CardPairs : SetCards(pair)

Spec == Init /\ [][Next]_vars

\* the seat mapping and the seat choice of the drawers, over every game shape
InitMap ==
    /\ files = AllAssets
    /\ Detached
    /\ \E n \in 1..MaxPlayers :
        \E h \in 0..n, u \in 0..n, uval \in UnknownCodes, c \in 0..n :
            Fresh(PokerTableVisualizer(MkGame(n, h, u, uval, 0, c, 10),
                                       "Ah", "Kd", "out.png", 1))

NextMap ==
    \/ GetPositionMapping
    \/ DrawPlayerCircles
    \/ DrawPlayerChips
    \/ (call = "" /\ CreateVisualization)

SpecMap == InitMap /\ [][NextMap]_vars

\* the chip drawer over every amount, the bettor folded or not
InitChips ==
    /\ files = AllAssets
    /\ Detached
    /\ \E n \in 2..3, c \in 1..2, f \in 0..1, t \in 0..MaxTenths :
        Fresh(PokerTableVisualizer(MkGame(n, 1, 0, None, f * c, c, t),
                                   "Ah", "Kd", "out.png", 1))

NextChips == DrawPlayerChips \/ GetPositionMapping

SpecChips == InitChips /\ [][NextChips]_vars

\* the disc colours, over every combination of the players' state flags
InitColor ==
    /\ files = AllAssets
    /\ Detached
    /\ \E n \in 2..MainPlayers :
        \E h \in 0..n, F \in SUBSET (1..n), A \in SUBSET (1..n), ap \in ActivePositions :
            Fresh(PokerTableVisualizer(MkFlagGame(n, h, F, A, ap),
                                       "Ah", "Kd", "out.png", 1))

NextColor == DrawPlayerCircles \/ GetPositionMapping

SpecColor == InitColor /\ [][NextColor]_vars

\* one game rendered with any of the asset files missing
InitAssets ==
    /\ files \in SUBSET AllAssets
    /\ Detached
    /\ Fresh(PokerTableVisualizer(MkGame(3, 2, 0, None, 0, 1, 26),
                                  "Ah", "Kd", "out.png", 1))

NextAssets ==
    \/ (call = "" /\ CreateVisualization)
    \/ DrawTable
    \/ DrawPlayerCircles
    \/ DrawPlayerCards
    \/ DrawHeroCards

SpecAssets == InitAssets /\ [][NextAssets]_vars

\* one GameDataProcessor, built and then updated any number of times
InitData ==
    /\ files = AllAssets
    /\ Unused
    /\ \E json_data \in DataGames, solution_path \in SolutionPaths \cup { NonePath } :
          processor = [ op |-> "__init__",
                        prior |-> << NoStack, None >>,
                        self |-> GameDataProcessor(json_data, solution_path) ]
    /\ server = None
    /\ batch = None
    /\ upload = None

NextData ==
    \/ \E json_data \in DataGames, solution_path \in SolutionPaths :
          ProcessorUpdateData(json_data, solution_path)
    \/ \E json_data \in DataGames : ProcessorUpdateData(json_data, NonePath)

SpecData == InitData /\ [][NextData]_vars

\* the image server after start-up, with requests arriving on two threads
InitServer ==
    /\ files = AllAssets
    /\ Unused
    /\ processor = None
    /\ server = [ visualizer_cache |-> init_visualizer_cache,
                  req |-> [ t \in Threads |-> IdleRequest ],
                  served |-> {},
                  received |-> 0 ]
    /\ batch = None
    /\ upload = None

NextServer ==
    \/ \E t \in Threads, file \in SolutionFiles \cup { None }, pair \in HandCards :
          ReceiveRequest(t, TRUE, file, pair)
    \/ \E t \in Threads : ReceiveRequest(t, FALSE, None, << None, None >>)
    \/ \E t \in Threads : RequestStep(t)
    \/ \E t \in Threads : SendResponse(t)

SpecServer == InitServer /\ [][NextServer]_vars

\* one BatchVisualizer run over any list of solution files
InitBatch ==
    /\ files = AllAssets
    /\ Unused
    /\ processor = None
    /\ server = None
    /\ batch = [ phase |-> "new",
                 pending |-> << >>,
                 outcomes |-> << >>,
                 stats |-> [ total_files |-> 0, processed_files |-> 0,
                             skipped_files |-> 0 ] ]
    /\ upload = None

NextBatch ==
    \/ \E n \in 0..MaxFiles : \E solution_files \in [ 1..n -> SolutionKinds ] :
          StartRun(solution_files)
    \/ ProcessSolutionFile
    \/ FinishRun

SpecBatch == InitBatch /\ [][NextBatch]_vars

\* one call of upload_single_image_with_retry, with or without a lock
InitUpload ==
    /\ files = AllAssets
    /\ Unused
    /\ processor = None
    /\ server = None
    /\ batch = None
    /\ \E max_retries \in 0..MaxRetries, lock \in BOOLEAN :
          upload = [ pc |-> "loop", max_retries |-> max_retries, lock |-> lock,
                     attempt |-> 0, outcomes |-> << >>, logged |-> 0,
                     result |-> UploadResult ]

NextUpload ==
    \/ \E outcome \in UploadOutcomes : Attempt(outcome)
    \/ ReturnResult

SpecUpload == InitUpload /\ [][NextUpload]_vars

\* the info panels, over the stack fields of the input
InitPanel ==
    /\ files = AllAssets
    /\ Detached
    /\ \E n \in 2..MainPlayers, s \in StackValues, cs \in StackValues \cup { -1 } :
        \E h \in 0..n :
            Fresh(PokerTableVisualizer(MkStackGame(n, h, s, cs),
                                       "Ah", "Kd", "out.png", 1))

NextPanel == DrawPlayerCircles \/ DrawPlayerRectangles

SpecPanel == InitPanel /\ [][NextPanel]_vars

----------------------------------------------------------------------------
(* Properties *)

RECURSIVE SumSeq(_)
SumSeq(q) == IF q = << >> THEN 0 ELSE Head(q) + SumSeq(Tail(q))

Seats(cfg) == 0..(Len(cfg.seat_positions) - 1)

\* C1: for a supported player count and a hero whose position is at index h of
\* the canonical list, the mapping sends the position at canonical index i to
\* seat (i - h) mod N, is a bijection from the N canonical codes onto 0..N-1,
\* and puts the hero's position at seat 0.
C1_HeroRelativeSeats ==
    LET gd == viz.game_data
        n == gd.num_players
        standard == standard_positions_by_count(n)
        h == IndexOf(standard, HeroPosition(gd))
    IN  (call = "get_position_mapping" /\ n \in 2..9 /\ h >= 0) =>
            /\ DOMAIN position_to_seat = Range(standard)
            /\ Cardinality(DOMAIN position_to_seat) = n
            /\ \A i \in 0..(n - 1) : position_to_seat[standard[i + 1]] = (i - h) % n
            /\ { position_to_seat[p] : p \in DOMAIN position_to_seat } = 0..(n - 1)
            /\ position_to_seat[HeroPosition(gd)] = 0

\* 9 players, hero at CO: UTG, four places before the hero, sits at seat 4
C1_Witness ==
    /\ call = "get_position_mapping"
    /\ viz.game_data.num_players = 9
    /\ HeroPosition(viz.game_data) = "CO"
    /\ position_to_seat["UTG"] = 4
    /\ position_to_seat["BTN"] = 1

\* C10: draw_player_circles never raises, and every player whose position is
\* not in the mapping gets a seat index inside the seat layout and its disc
\* is drawn at that seat.
C10_FallbackSeatInLayout ==
    call = "draw_player_circles" =>
        /\ raised = None
        /\ Len(player_positions) = Len(viz.game_data.players)
        /\ \A i \in 1..Len(player_positions) :
              LET player == viz.game_data.players[i]
                  entry == player_positions[i]
              IN  player.position \notin DOMAIN position_to_seat =>
                      /\ entry.player = i
                      /\ entry.seat_index \in Seats(viz.config)
                      /\ entry.at = viz.config.seat_positions[entry.seat_index + 1]
                      /\ \E l \in 1..Len(viz.img) :
                            /\ viz.img[l].kind = "disc"
                            /\ viz.img[l].at = entry.at

\* a villain with an unknown code at a 6-seat table is drawn at the last seat
C10_Witness ==
    /\ call = "draw_player_circles"
    /\ Len(viz.config.seat_positions) = 6
    /\ \E i \in 1..Len(player_positions) :
          /\ viz.game_data.players[i].position = "XX"
          /\ ~viz.game_data.players[i].is_hero
          /\ player_positions[i].seat_index = 5
          /\ player_positions[i].at = "bottom_right"

UnmappedBettors(gd, map) ==
    { i \in 1..Len(gd.players) :
        /\ gd.players[i].chips_on_table > 0
        /\ gd.players[i].position \notin DOMAIN map }

\* C9: whenever a player has chips on the table and a position the mapping
\* lacks, draw_player_chips raises, and create_visualization ends in that
\* error of the chip drawer.
C9_UnmappedBettorErrorReachesCaller ==
    UnmappedBettors(viz.game_data, get_position_mapping(viz.game_data)) # {} =>
        /\ call = "draw_player_chips" => raised # None
        /\ call = "create_visualization" =>
              /\ raised # None
              /\ "draw_player_chips" \in Range(ops)

\* C8: the chip stack built for a bet sums to the bet, for every bet that is a
\* multiple of 0.1.
C8_StackSumsToBet ==
    call = "draw_player_chips" =>
        \A i \in DOMAIN stacks :
            SumSeq(stacks[i]) = viz.game_data.players[i].chips_on_table

\* a valid game state: 2 to 9 players, canonical codes, one hero, both cards
ValidGame(v) ==
    LET gd == v.game_data
        n == gd.num_players
    IN  /\ n \in 2..9
        /\ \A i \in 1..n :
              gd.players[i].position \in Range(standard_positions_by_count(n))
        /\ Cardinality({ i \in 1..n : gd.players[i].is_hero }) = 1
        /\ Truthy(v.card1) /\ Truthy(v.card2)

\* C2: for a valid game state create_visualization runs without raising,
\* saves the image at the base resolution and returns output_path.
C2_ValidRenderSucceeds ==
    (call = "create_visualization" /\ ValidGame(viz)) =>
        /\ raised = None
        /\ returned = viz.output_path
        /\ saved.layers # NoImage
        /\ saved.width = base_width
        /\ saved.height = base_height

Rank(kind) ==
    CASE kind \in { "background", "table_background", "table", "logo" } -> 1
      [] kind \in { "disc", "avatar" } -> 2
      [] kind = "card_back" -> 3
      [] kind = "hero_card" -> 4
      [] kind = "panel" -> 5
      [] kind \in { "chip", "chip_label" } -> 7
      [] kind \in { "scenario", "pot" } -> 8
      [] OTHER -> 6

\* C3: every render ends with a final image whose layers lie in the order
\* table, discs, face-down cards, hero cards, panels, panel text, chips,
\* scenario and pot text, with the downsample as the last step.
C3_LayerOrder ==
    call = "create_visualization" =>
        /\ saved.layers # NoImage
        /\ \A i, j \in 1..Len(saved.layers) :
              i < j => Rank(saved.layers[i].kind) <= Rank(saved.layers[j].kind)
        /\ \E i \in 1..Len(saved.layers) : saved.layers[i].kind = "panel"
        /\ "resize" \in Range(ops) => ops[Len(ops)] = "resize"

\* the step is a create_visualization call entered with a stored layer that
\* was built for the key of the current game state
RenderWithStoredLayer ==
    /\ call' = "create_visualization"
    /\ calls' = calls + 1
    /\ viz.template_base # NoImage
    /\ template_key = Key(viz.game_data)

\* C4: a create_visualization call entered with the layer of its key already
\* stored does not run the table drawing or the disc drawing again.
C4_StaticLayerBuiltOnce ==
    [][ RenderWithStoredLayer =>
            /\ "draw_table" \notin Range(ops')
            /\ "draw_player_circles" \notin Range(ops') ]_vars

\* C5: no create_visualization call starts from a stored layer that was built
\* for another (player count, hero position).
C5_LayerReusedOnlyForOwnKey ==
    call = "create_visualization" =>
        start_key \in { NoKey, Key(viz.game_data) }

HandKinds ==
    { "card_back", "hero_card", "chip", "chip_label", "scenario", "pot" }

\* C6: none of the stored layers holds a card, face up or face down, a chip,
\* a bet label, the pot text or the scenario text.
C6_NoHandContentStored ==
    \A layer \in { viz.template_base, viz.rectangles_overlay, viz.template_image } :
        \A i \in 1..Len(layer) : layer[i].kind \notin HandKinds

\* the static content a build from the instance's game state stores
StaticOf(v) ==
    draw_player_cards(v.game_data, v.config,
        draw_player_circles(v.game_data, v.config,
            draw_table(v.game_data, << Background >>, FALSE)).img).img

\* C7: a create_visualization call entered with the stored layer of the
\* current game leaves template_base and rectangles_overlay as they were and
\* draws the current hero cards on its own copy.
C7_StoredLayerKeptDynamicRedrawn ==
    [][ (RenderWithStoredLayer /\ viz.template_base = StaticOf(viz)) =>
            /\ viz'.template_base = viz.template_base
            /\ viz'.rectangles_overlay = viz.rectangles_overlay
            /\ (Truthy(viz.card1) /\ Truthy(viz.card2)) =>
                  \A card \in { viz.card1, viz.card2 } :
                      \E i \in 1..Len(viz'.img) :
                          /\ viz'.img[i].kind = "hero_card"
                          /\ viz'.img[i].card = card ]_vars

\* the seat indexes draw_player_circles gave the players, in player order
SeatsGiven == [ i \in 1..Len(player_positions) |-> player_positions[i].seat_index ]

\* C11: after the discs are drawn every player has a seat index inside the
\* layout and no two players have the same one, on the normal path and on
\* every fallback path.
C11_SeatAssignmentInjective ==
    call = "draw_player_circles" =>
        /\ Len(SeatsGiven) = Len(viz.game_data.players)
        /\ \A i \in 1..Len(SeatsGiven) : SeatsGiven[i] \in Seats(viz.config)
        /\ \A i, j \in 1..Len(SeatsGiven) : i # j => SeatsGiven[i] # SeatsGiven[j]

\* the hero is absent or its position is not in the canonical list of the count
OnFallbackPath(gd) ==
    \/ gd.hero = 0
    \/ IndexOf(standard_positions_by_count(gd.num_players), HeroPosition(gd)) < 0

\* C12: on the fallback path get_position_mapping returns the default map,
\* changed at most at the hero's position, and whenever a hero is present
\* the map sends the hero's position to seat 0.
C12_DefaultMapHeroAtZero ==
    call = "get_position_mapping" =>
        LET gd == viz.game_data
            hp == HeroPosition(gd)
        IN  /\ OnFallbackPath(gd) =>
                  /\ DOMAIN _get_default_mapping \subseteq DOMAIN position_to_seat
                  /\ \A p \in DOMAIN _get_default_mapping :
                        p # hp => position_to_seat[p] = _get_default_mapping[p]
            /\ gd.hero # 0 =>
                  /\ hp \in DOMAIN position_to_seat
                  /\ position_to_seat[hp] = 0

\* C13: the seat layout has exactly N coordinates for N in 2..9, seat 0 is the
\* bottom-centre coordinate, and for any other N it is the 8-player layout.
C13_SeatLayoutSize ==
    LET n == viz.game_data.num_players
        seat_positions == viz.config.seat_positions
    IN  /\ viz.config.num_players = n
        /\ seat_positions[1] = "bottom_middle"
        /\ n \in 2..9 => Len(seat_positions) = n
        /\ n \notin 2..9 =>
              seat_positions = << "bottom_middle", "bottom_left", "left_middle",
                                  "top_left", "top_middle", "top_right",
                                  "right_middle", "bottom_right" >>

\* ten players are given the eight seats, nine players nine
C13_Witness ==
    /\ viz.game_data.num_players = 10
    /\ Len(viz.config.seat_positions) = 8
    /\ viz.config.seat_positions[8] = "bottom_right"

\* C14: with a player count outside 2..9 every seat index the drawers use is
\* inside the clamped layout, the chip drawer does not raise, and
\* create_visualization completes and saves the image.
C14_UnsupportedCountRenders ==
    viz.game_data.num_players \notin 2..9 =>
        /\ call = "draw_player_circles" =>
              \A i \in 1..Len(SeatsGiven) : SeatsGiven[i] \in Seats(viz.config)
        /\ call = "draw_player_chips" => raised = None
        /\ call = "create_visualization" =>
              /\ raised = None
              /\ saved # NoFile

C16_SeatZeroOnlyHero ==
    call = "draw_player_circles" =>
        \A i \in 1..Len(player_positions) :
            ~viz.game_data.players[i].is_hero =>
                /\ player_positions[i].seat_index # 0
                /\ player_positions[i].at # viz.config.seat_positions[1]

\* C18: the disc colour is the first match of folded, hero, active, default,
\* where a player is active when flagged so or when at the active position;
\* the disc drawn for the player has that colour.
C18_DiscColorFirstMatch ==
    call = "draw_player_circles" =>
        \A i \in 1..Len(player_positions) :
            LET player == viz.game_data.players[i]
                active == \/ player.is_active
                          \/ player.position = viz.game_data.active_position
                color == player_positions[i].color
            IN  /\ player.is_folded => color = "folded_player_color"
                /\ (~player.is_folded /\ player.is_hero) => color = "hero_player_color"
                /\ (~player.is_folded /\ ~player.is_hero /\ active) =>
                      color = "active_player_color"
                /\ (~player.is_folded /\ ~player.is_hero /\ ~active) =>
                      color = "player_color"
                /\ \E l \in 1..Len(viz.img) :
                      /\ viz.img[l].kind = "disc"
                      /\ viz.img[l].at = player_positions[i].at
                      /\ viz.img[l].color = color

\* a folded hero at the active position has the folded colour, and a villain
\* flagged active that has not folded the active colour
C18_Witness ==
    /\ call = "draw_player_circles"
    /\ \E i \in 1..Len(player_positions) :
          LET player == viz.game_data.players[i]
          IN  /\ player.is_hero /\ player.is_folded
              /\ player.position = viz.game_data.active_position
              /\ player_positions[i].color = "folded_player_color"
    /\ \E i \in 1..Len(player_positions) :
          LET player == viz.game_data.players[i]
          IN  /\ ~player.is_hero /\ ~player.is_folded /\ player.is_active
              /\ player.position # viz.game_data.active_position
              /\ player_positions[i].color = "active_player_color"

\* the layers of an image that were drawn from an asset file or in its place
DrawnAs(img, kind, how) ==
    { i \in 1..Len(img) : img[i].kind = kind /\ img[i].drawn = how }

\* C17: whatever asset files are missing, no call raises and
\* create_visualization saves its image; the fonts are the preferred ones,
\* else the system font, else the built-in one; a card whose file is missing
\* is drawn by the program; a missing avatar or logo is left out.
C17_MissingAssetsNeverRaise ==
    /\ viz.fonts = (IF FontFiles \subseteq files THEN "Inter"
                    ELSE IF Arial \in files THEN "arial.ttf" ELSE "load_default")
    /\ call # "" => raised = None
    /\ call = "create_visualization" => saved # NoFile
    /\ call = "draw_hero_cards" =>
          \A card \in { viz.card1, viz.card2 } :
              \E i \in DrawnAs(viz.img, "hero_card",
                               IF CardPath(card) \in files THEN "image" ELSE "fallback") :
                  viz.img[i].card = card
    /\ call = "draw_player_cards" =>
          /\ DrawnAs(viz.img, "card_back",
                     IF CardBackPath \in files THEN "image" ELSE "fallback") # {}
          /\ DrawnAs(viz.img, "card_back",
                     IF CardBackPath \in files THEN "fallback" ELSE "image") = {}
    /\ call = "draw_player_circles" =>
          (AvatarPath \in files <=> \E i \in 1..Len(viz.img) : viz.img[i].kind = "avatar")
    /\ call = "draw_table" =>
          (LogoPath \in files <=> \E i \in 1..Len(viz.img) : viz.img[i].kind = "logo")

\* the face-down cards of an image that lie at a seat
CardBacksAt(img, at) ==
    { i \in 1..Len(img) : img[i].kind = "card_back" /\ img[i].at = at }

\* C19: the image a create_visualization call leaves holds a face-down pair
\* at the seat of every player of the current game state that is neither the
\* hero nor folded, no face-down card at the seat of a folded player, and the
\* two hero cards when both are given.
C19_CardsOfCurrentState ==
    call = "create_visualization" =>
        LET gd == viz.game_data
            map == get_position_mapping(gd)
        IN  /\ \A i \in 1..Len(gd.players) :
                  LET player == gd.players[i]
                      at == _get_safe_seat_position(viz.config,
                                CircleSeatIndex(viz.config, map, player))
                  IN  Cardinality(CardBacksAt(viz.img, at)) =
                          IF player.is_hero \/ player.is_folded THEN 0 ELSE 2
            /\ (Truthy(viz.card1) /\ Truthy(viz.card2)) =>
                  \A card \in { viz.card1, viz.card2 } :
                      \E l \in 1..Len(viz.img) :
                          /\ viz.img[l].kind = "hero_card"
                          /\ viz.img[l].card = card

\* the step is a create_visualization call that follows another one with
\* nothing changed in between
RenderAgain ==
    /\ call = "create_visualization"
    /\ call' = "create_visualization"
    /\ calls' = calls + 1

CountOf(stack, denom) == Cardinality({ k \in DOMAIN stack : stack[k] = denom })

LargerSum(stack, denom) == SumSeq(SelectSeq(stack, LAMBDA x : x > denom))

NonIncreasing(stack) == \A k \in 1..(Len(stack) - 1) : stack[k] >= stack[k + 1]

\* C23: every stack draw_player_chips builds is ordered from the largest chip
\* down, and of each denomination it holds the largest number of chips that
\* fits the amount the larger chips leave over.
C23_GreedyLargestThatFits ==
    call = "draw_player_chips" =>
        \A i \in DOMAIN stacks :
            LET stack == stacks[i]
                chips == viz.game_data.players[i].chips_on_table
            IN  /\ NonIncreasing(stack)
                /\ \A d \in DOMAIN denominations :
                       CountOf(stack, denominations[d])
                           = (chips - LargerSum(stack, denominations[d]))
                                  \div denominations[d]

\* ---- C24 ----

\* where draw_player_chips puts the chips of player i
ChipsAt(i) ==
    viz.config.seat_positions[
        ChipSeatIndex(viz.config, position_to_seat, viz.game_data.players[i]) + 1]

\* the labels drawn at the chips of player i
ChipLabels(i) ==
    { k \in DOMAIN viz.img :
        viz.img[k].kind = "chip_label" /\ viz.img[k].at = ChipsAt(i) }

\* C24: draw_player_chips draws the chip stack and the label of a player
\* exactly when the player has not folded and has chips on the table.
C24_ChipsIffNotFoldedAndBet ==
    (call = "draw_player_chips" /\ raised = None) =>
        \A i \in DOMAIN viz.game_data.players :
            LET player == viz.game_data.players[i]
            IN  (i \in DOMAIN stacks /\ ChipLabels(i) # {})
                    <=> (~player.is_folded /\ player.chips_on_table > 0)

\* ---- C26 ----

\* C26: every chip stack comes with exactly one label, and the amount the
\* label shows is the player's chips_on_table.
C26_OneLabelWithBetValue ==
    (call = "draw_player_chips" /\ raised = None) =>
        \A i \in DOMAIN stacks :
            /\ Cardinality(ChipLabels(i)) = 1
            /\ \A k \in ChipLabels(i) :
                   viz.img[k].text = viz.game_data.players[i].chips_on_table

\* ---- C25 ----

\* C25: after draw_player_rectangles every player has an info panel that
\* shows the player's position code and the value of the player's stack field.
C25_PanelShowsStackField ==
    (call = "draw_player_rectangles" /\ raised = None) =>
        \A i \in DOMAIN viz.game_data.players :
            \E k \in DOMAIN viz.img :
                /\ viz.img[k].kind = "panel"
                /\ viz.img[k].text = viz.game_data.players[i].position
                /\ viz.img[k].stack = viz.game_data.players[i].stack

\* ---- C27 ----

\* what the parts of a path say, read off the path directly
GameDirOf(path) ==
    IF \E i \in DOMAIN path : DirTokens(path[i])[1] = "MTT"
    THEN DirTokens(path[CHOOSE i \in DOMAIN path :
                            /\ DirTokens(path[i])[1] = "MTT"
                            /\ \A j \in 1..(i - 1) : DirTokens(path[j])[1] # "MTT"])
    ELSE << >>

FieldLeftOf(path) ==
    LET dir == GameDirOf(path)
        pct == { i \in 1..(Len(dir) - 1) : dir[i] = "PCT" /\ dir[i + 1] \in Digits }
    IN  IF pct # {}
        THEN PctFieldLeft(dir[(CHOOSE i \in pct : \A j \in pct : i <= j) + 1])
        ELSE IF Contains(dir, "START") THEN "100% Field left"
        ELSE IF Contains(dir, "FT") THEN "Final table"
        ELSE IF Contains(dir, "BUBBLEMID") THEN "Near bubble"
        ELSE None

IsDepthPart(name) ==
    Len(DirTokens(name)) >= 2 /\ DirTokens(name)[1] = "depth" /\ DirTokens(name)[2] = "_"

AvgStackOf(path) ==
    LET ds == { i \in DOMAIN path : IsDepthPart(path[i]) }
    IN  IF ds = {} THEN NoStack
        ELSE LET tokens == DirTokens(path[CHOOSE i \in ds : \A j \in ds : i <= j])
             IN  IF Len(tokens) >= 3 /\ tokens[3] \in Digits
                    /\ (Len(tokens) = 3 \/ tokens[4] = "_")
                 THEN IntOf(tokens[3])
                 ELSE NoStack

\* C27: after the constructor and after every update_data the derived fields
\* agree with the stored data (player count, the players not folded, the
\* first hero or none, the pot), and the parsed average stack and field-left
\* text are those of the instance's current solution path, none when it has
\* no path.
C27_DerivedFieldsAgree ==
        LET self == processor.self
            players == self.data.players
            heroes == { i \in DOMAIN players : players[i].is_hero }
            path == IF self.solution_path = NonePath THEN << >> ELSE self.solution_path
        IN  /\ self.gd.players = players
            /\ self.gd.num_players = Len(players)
            /\ self.gd.active_players = SelectSeq(players, LAMBDA p : ~p.is_folded)
            /\ self.gd.hero = IF heroes = {} THEN 0
                              ELSE CHOOSE i \in heroes : \A j \in heroes : i <= j
            /\ self.gd.pot = self.data.pot
            /\ self.parsed_avg_stack = AvgStackOf(path)
            /\ self.parsed_field_left = FieldLeftOf(path)

\* an update_data that replaced a path with a depth directory and a field
\* percentage by a path that has neither
C27_Witness ==
    /\ processor.op = "update_data"
    /\ processor.prior[1] # NoStack
    /\ processor.prior[2] # None
    /\ processor.self.solution_path \notin { << >>, NonePath }
    /\ processor.self.parsed_avg_stack = NoStack
    /\ processor.self.parsed_field_left = None
    /\ processor.self.gd.hero # 0
    /\ Len(processor.self.gd.active_players) < processor.self.gd.num_players

\* ---- C21 ----

C22_FailedHandLeavesOthersRendered ==
    \A k \in DOMAIN batch.outcomes :
        LET o == batch.outcomes[k]
            hands == 1..o.file.hands
        IN  (o.file.early = "ok" /\ o.file.summary_ok /\ o.logged # {}) =>
                /\ \A i \in o.logged : hands \ { i } \subseteq o.images
                /\ o.summary
                /\ ~o.file_error

\* ---- C29 ----

\* C29: when run() has finished, processed_files + skipped_files equals
\* total_files.
C29_EveryFileCountedOnce ==
    batch.phase = "finished" =>
        batch.stats.processed_files + batch.stats.skipped_files
            = batch.stats.total_files

\* ---- C30 ----

Succeeded(outcome) == outcome \in { "id", "no_id" }

\* C30: upload_single_image_with_retry always returns, after at most
\* max_retries attempts and none after the first success; the result has
\* success = true, a media id and no error when an attempt succeeded, and
\* success = false, the last error and attempts = max_retries when all failed.
C30_RetryResult ==
    /\ upload.pc \in { "loop", "returned" }
    /\ Len(upload.outcomes) <= upload.max_retries
    /\ \A k \in 1..(Len(upload.outcomes) - 1) : ~Succeeded(upload.outcomes[k])
    /\ upload.pc = "returned" =>
         LET result == upload.result
             n == Len(upload.outcomes)
         IN  IF n > 0 /\ Succeeded(upload.outcomes[n])
             THEN /\ result.success
                  /\ result.media_id # None
                  /\ result.error = None
                  /\ result.attempts = n
             ELSE /\ ~result.success
                  /\ result.media_id = None
                  /\ result.attempts = upload.max_retries
                  /\ result.error = IF n = 0 THEN None ELSE upload.outcomes[n]

====
